---------------------------- MODULE Spec2Model ----------------------------
(***************************************************************************)
(* State-machine model of the chunked file relay of this repository:       *)
(*   - the worker's fetch handler            (src/unnamed/part_002)        *)
(*   - FileUploader.uploadFile and helpers   (src/src/uploader.ts)         *)
(*   - ProgressReporter.reportProgress       (src/src/progress-reporter.ts)*)
(*                                                                         *)
(* Every incoming request owns one FileUploader and one ProgressReporter    *)
(* (part_002:29-40); all the state of a transfer lives in the locals of its *)
(* async calls.  The model keeps one record per request in tr[t]: the       *)
(* locals of the calls, the position of the call (pc), and history fields   *)
(* that record what the transfer did to the outside world (range requests,  *)
(* chunk transmissions, progress events, status polls).                     *)
(*                                                                         *)
(* Every await on the network is a step whose outcome the environment       *)
(* chooses: a transport error (fetch rejects), a non-success status, or a   *)
(* success with a body chosen from a small set.                             *)
(*                                                                         *)
(* Specifications:                                                         *)
(*   Spec        one request, from the handler to its answer               *)
(*   PollSpec    waitForFileActive after a clean upload, with fairness     *)
(*   CleanSpec   the request whose every call succeeds at once             *)
(*   TimeoutSpec the timeout computation of waitForFileActive, any size    *)
(*   LiveSpec    one request without the history fields, with fairness     *)
(*   PairSpec    two requests at once, each in a narrow environment        *)
(***************************************************************************)
EXTENDS Integers, Sequences, FiniteSets, TLC

VARIABLES tr

vars == <<tr>>

(***************************************************************************)
(* Program constants                                                       *)
(***************************************************************************)
MiB == 1024 * 1024

CHUNK_SIZE == 8 * 1024 * 1024

MAX_RETRIES == 3

RETRY_DELAY == 2000

baseTimeoutSeconds == 60

maxTimeoutSeconds == 300

(***************************************************************************)
(* Bounds of the model                                                     *)
(***************************************************************************)
\* sizes of up to MaxFullChunks full chunks plus a remainder are probed
MaxFullChunks == 2

\* iterations of the chunk loop of streamUploadInChunks that are explored
MaxFetches == 4

\* range responses whose body has not the requested length, per transfer
MaxBadBodies == 1

\* a status poll takes k * 500 ms, k in 0..MaxLatencySteps
MaxLatencySteps == 1

\* steps of one wait for activation that take more than their least time: a
\* status poll with a latency above 0, a backoff with a jitter above 0
MaxSlowSteps == 1

\* the timeout of the wait for activation is computed for sizes of up to
\* MaxSizeMiB MiB (and a fraction)
MaxSizeMiB == 600

\* requests the worker can hold a transfer for; Init decides which arrive
Transfers == {1, 2}

Min(a, b) == IF a < b THEN a ELSE b

Last(s) == s[Len(s)]

(***************************************************************************)
(* Errors: message (the fixed part of the text of the Error) and cause     *)
(* (the interpolated underlying error, "" when there is none).             *)
(***************************************************************************)
Err(m, c) == [msg |-> m, cause |-> c]

NoErr == Err("", "")

\* error.message: the fixed text, then the interpolated cause
Message(e) == IF e.cause = "" THEN e.msg ELSE e.msg \o ": " \o e.cause

\* the two ways one request can fail: fetch rejects, or the status is not 2xx
TransportErr == "network error"

HttpErr == "HTTP 500"

NoUri == ""

\* the object id (file.uri) the upload API returns for the upload of request t
UriOf(t) == IF t = 1 THEN "files/1" ELSE "files/2"

(***************************************************************************)
(* Inputs the environment chooses from                                     *)
(***************************************************************************)
\* sizes the source reports: k full chunks plus a remainder
Remainders == {0, 1, 4 * MiB}

Sizes == {k * CHUNK_SIZE + r : k \in 0..MaxFullChunks, r \in Remainders} \ {0}

\* the content-length header of the HEAD response: absent, not a number,
\* or the decimal text of val
Header(p, n, v) == [present |-> p, numeric |-> n, val |-> v]

ContentLengths ==
    {Header(FALSE, FALSE, 0), Header(TRUE, FALSE, 0), Header(TRUE, TRUE, 0),
     Header(TRUE, TRUE, -1)} \cup {Header(TRUE, TRUE, v) : v \in Sizes}

\* how one HTTP exchange ends: fetch rejects, a non-2xx status, a 2xx status
Exchanges == {"reject", "status", "ok"}

\* body lengths a 2xx range response can carry when req bytes were asked for
\* out of a file of total bytes: nothing, one byte short, the range, or the
\* whole file (a server that ignores Range)
BodyLengths(req, total) == {0, req - 1, req, total}

\* states the status endpoint reports in a 2xx response
FileStates == {"ACTIVE", "FAILED", "PROCESSING"}

\* how one status poll ends: no response, a non-2xx response, or a 2xx
\* response with a state
PollAnswers ==
    {[x |-> "reject", st |-> ""], [x |-> "status", st |-> ""]}
        \cup {[x |-> "ok", st |-> st] : st \in FileStates}

\* time one status poll takes, in ms (fetch has no timeout of its own)
Latencies == {k * 500 : k \in 0..MaxLatencySteps}

MaxLatency == MaxLatencySteps * 500

\* Math.random() * 1000, in ms: a value of [0, 1000)
Jitters == {0, 500}

(***************************************************************************)
(* A transfer that has not started: the state a request is in when it      *)
(* reaches the worker.                                                     *)
(***************************************************************************)
NoResult == [success |-> FALSE, bytesUploaded |-> 0, error |-> "", fileUri |-> NoUri]

NoResponse == [status |-> 0, success |-> FALSE, error |-> "", fileUri |-> NoUri,
               totalSize |-> 0]

Fresh(p) ==
    [pc |-> p,
     \* uploadFile
     totalSize |-> 0, sizeNaN |-> FALSE, sessionOpen |-> FALSE, fileUri |-> NoUri,
     error |-> NoErr, response |-> NoResponse,
     \* streamUploadInChunks
     bytesUploaded |-> 0, chunkSize |-> 0, isLastChunk |-> FALSE, chunk |-> 0,
     \* uploadChunk
     attempt |-> 0, result |-> NoResult,
     \* waitForFileActive
     timeout |-> [ms |-> 0, frac |-> 0], pollAttempt |-> 0, elapsed |-> 0,
     \* history: what the transfer did to the outside world
     sessions |-> <<>>, ranges |-> <<>>, sent |-> <<>>, events |-> <<>>,
     attemptErrs |-> <<>>, tries |-> 0, badBodies |-> 0, polled |-> {}, slow |-> 0,
     \* reportProgress: how the push ended, and where the call returns to
     push |-> "", ret |-> "",
     \* whether the history of this transfer is kept
     journal |-> TRUE]

Init == tr = [t \in Transfers |-> IF t = 1 THEN Fresh("request") ELSE Fresh("idle")]

\* the history fields are a journal of what the program did, no state of
\* the program: a transfer that keeps no journal has only its locals
Journalled(s) ==
    IF s.journal THEN s
    ELSE [s EXCEPT !.ranges = <<>>, !.sent = <<>>, !.events = <<>>, !.badBodies = 0]

\* (mutation: bytesUploaded is a variable of the module, shared by every
\* transfer that has started)
Set_SharedCounter(t, s) ==
    tr' = [u \in Transfers |->
             IF u = t THEN Journalled(s)
             ELSE IF tr[u].pc \in {"idle", "done"} THEN tr[u]
             ELSE [tr[u] EXCEPT !.bytesUploaded = s.bytesUploaded]]

\* a step of transfer t: its locals and its history become s; uploadId,
\* bytesUploaded, attempt, startTime are locals of the calls of one request,
\* the uploader and the reporter are objects of that request
Set(t, s) == tr' = [tr EXCEPT ![t] = Journalled(s)]

Throw(s, e) == [s EXCEPT !.pc = "catch", !.error = e]

(***************************************************************************)
(* ProgressReporter.reportProgress: builds the full event and pushes it to *)
(* the sink.  d is how the push ends; a rejected fetch and a non-2xx       *)
(* status are both only logged, so the call always returns normally.  The  *)
(* call is a step of its own: between the push and the return the transfer *)
(* is inside reportProgress (pc "reported").                               *)
(***************************************************************************)
Progress(b, total, pct, st, m) ==
    [bytesUploaded |-> b, totalBytes |-> total, percentage |-> pct, status |-> st,
     message |-> m]

FullProgress(t, p) ==
    [uploadId |-> t, videoId |-> t, bytesUploaded |-> p.bytesUploaded,
     totalBytes |-> p.totalBytes, percentage |-> p.percentage, status |-> p.status,
     message |-> p.message]

\* lines 15-49 and 51-58: the event is built and posted, and the push ends
\* as d.  s is the caller's state at the statement after the call.
reportProgress(s, t, p, d) ==
    [s EXCEPT !.events = Append(@, FullProgress(t, p)),
              !.pc = "reported", !.push = d, !.ret = s.pc]

\* (mutation: no try/catch, and a non-2xx status is thrown like a rejection)
PushThrows_Failure(d) == d # "ok"

\* nothing leaves the try/catch of lines 14-59: a non-2xx status is logged
\* (39-46), a rejected fetch is caught and logged (51-58)
PushThrows(d) == FALSE

\* line 60: reportProgress returns to the statement after the call
ReportReturn(t) ==
    LET s  == tr[t]
        s1 == [s EXCEPT !.push = "", !.ret = ""]
    IN
    /\ s.pc = "reported"
    /\ Set(t, IF PushThrows(s.push)
              THEN Throw(s1, Err("Failed to report progress", ""))
              ELSE [s1 EXCEPT !.pc = s.ret])

\* (mutation: Math.floor in the place of Math.round)
Percentage_Floor(b, total) ==
    LET q0 == b \div total
        r0 == b % total
        q1 == (r0 * 10) \div total
        r1 == (r0 * 10) % total
    IN  100 * q0 + 10 * q1 + (r1 * 10) \div total

\* Math.round((bytesUploaded / totalSize) * 100) for total > 0, b >= 0: the
\* quotient is taken digit by digit so that no product leaves 32 bits
Percentage(b, total) ==
    LET q0 == b \div total
        r0 == b % total
        q1 == (r0 * 10) \div total
        r1 == (r0 * 10) % total
        q2 == (r1 * 10) \div total
        r2 == (r1 * 10) % total
    IN  100 * q0 + 10 * q1 + q2 + (IF 2 * r2 >= total THEN 1 ELSE 0)

(***************************************************************************)
(* The worker's fetch handler up to the call of uploadFile.                *)
(***************************************************************************)
RequestKinds == {"OPTIONS", "invalid", "valid"}

HandleRequest(t) ==
    LET s == tr[t] IN
    /\ s.pc = "request"
    /\ \E k \in RequestKinds :
         Set(t, CASE k = "OPTIONS" ->
                       [s EXCEPT !.pc = "done", !.response.status = 204]
                  [] k = "invalid" ->
                       [s EXCEPT !.pc = "done", !.response.status = 400,
                                 !.response.error = "validation"]
                  [] OTHER -> [s EXCEPT !.pc = "probe"])

(***************************************************************************)
(* uploadFile, lines 20-43: the HEAD probe of the size and the start event *)
(***************************************************************************)
\* parseInt(headers.get('content-length') || '0')
ParseContentLength(h) ==
    IF ~h.present THEN [nan |-> FALSE, val |-> 0]
    ELSE IF ~h.numeric THEN [nan |-> TRUE, val |-> 0]
    ELSE [nan |-> FALSE, val |-> h.val]

\* totalSize === 0
SizeUnknown(size) == ~size.nan /\ size.val = 0

Pushes == {"ok", "status", "reject"}

Probe(t) ==
    LET s == tr[t] IN
    /\ s.pc = "probe"
    /\ \E x \in Exchanges, h \in ContentLengths, d \in Pushes :
         LET size == ParseContentLength(h) IN
         Set(t, CASE x = "reject" -> Throw(s, Err(TransportErr, ""))
                  [] x = "status" -> Throw(s, Err("Failed to get file metadata", ""))
                  [] OTHER ->
                       IF SizeUnknown(size)
                       THEN Throw(s, Err("Unable to determine file size", ""))
                       ELSE reportProgress(
                              [s EXCEPT !.pc = "session", !.totalSize = size.val,
                                        !.sizeNaN = size.nan],
                              t,
                              Progress(0, size.val, 0, "uploading",
                                       "Starting streaming upload to Google Files API"),
                              d))

(***************************************************************************)
(* startUploadSession, called at line 46                                   *)
(***************************************************************************)
\* the session-open request as the upload API saw and answered it: the
\* declared size, and whether the answer was a 2xx with the upload URL
SessionCall(size, nan, x, hasUrl) ==
    [size |-> size, nan |-> nan, granted |-> (x = "ok" /\ hasUrl)]

\* (mutation: the session is used without looking at the header)
MissingUploadUrl_Ignored(hasUrl) == FALSE

\* if (!uploadUrl), line 118
MissingUploadUrl(hasUrl) == ~hasUrl

StartUploadSession(t) ==
    LET s == tr[t] IN
    /\ s.pc = "session"
    /\ \E x \in Exchanges, hasUrl \in BOOLEAN :
         LET s1 == [s EXCEPT !.sessions =
                                Append(@, SessionCall(s.totalSize, s.sizeNaN, x, hasUrl))]
         IN
         Set(t, CASE x = "reject" -> Throw(s1, Err(TransportErr, ""))
                  [] x = "status" -> Throw(s1, Err("Failed to start upload session", ""))
                  [] OTHER ->
                       IF MissingUploadUrl(hasUrl)
                       THEN Throw(s1, Err("Missing upload URL from Google Files API", ""))
                       ELSE [s1 EXCEPT !.pc = "loop", !.sessionOpen = TRUE,
                                       !.bytesUploaded = 0])

(***************************************************************************)
(* streamUploadInChunks                                                    *)
(***************************************************************************)
\* while (bytesUploaded < totalSize): a comparison with NaN is false
LoopCondition(s) == ~s.sizeNaN /\ s.bytesUploaded < s.totalSize

\* (mutation: the whole rest of the file is one chunk)
ChunkSize_Whole(bytesUploaded, totalSize) == totalSize - bytesUploaded

\* Math.min(CHUNK_SIZE, remainingBytes)
ChunkSize(bytesUploaded, totalSize) == Min(CHUNK_SIZE, totalSize - bytesUploaded)

\* bytesUploaded + chunkSize >= totalSize
IsLastChunk(bytesUploaded, chunkSize, totalSize) == bytesUploaded + chunkSize >= totalSize

\* lines 134-145: the loop test, the range of the next chunk, the range request
NextChunk(t) ==
    LET s == tr[t]
        c == ChunkSize(s.bytesUploaded, s.totalSize)
    IN
    /\ s.pc = "loop"
    /\ LoopCondition(s) => Len(s.ranges) < MaxFetches
    /\ Set(t, IF LoopCondition(s)
              THEN [s EXCEPT !.pc = "fetch", !.chunkSize = c,
                             !.isLastChunk = IsLastChunk(s.bytesUploaded, c, s.totalSize),
                             !.ranges = Append(@, [offset |-> s.bytesUploaded,
                                                   length |-> c,
                                                   rangeEnd |-> s.bytesUploaded + c - 1])]
              ELSE Throw(s, Err("Streaming upload completed but no file URI received", "")))

\* lines 141-152: the range response and its body
ChunkFetched(t) ==
    LET s == tr[t] IN
    /\ s.pc = "fetch"
    /\ \E x \in Exchanges, n \in BodyLengths(s.chunkSize, s.totalSize) :
         /\ n >= 0
         /\ (x = "ok" /\ n # s.chunkSize) => s.badBodies < MaxBadBodies
         /\ Set(t, CASE x = "reject" -> Throw(s, Err(TransportErr, ""))
                     [] x = "status" -> Throw(s, Err("Failed to fetch chunk", ""))
                     [] OTHER ->
                          [s EXCEPT !.pc = "send", !.chunk = n, !.attempt = 0,
                                    !.attemptErrs = <<>>, !.tries = 0,
                                    !.badBodies = IF n # s.chunkSize THEN @ + 1 ELSE @])

(***************************************************************************)
(* uploadChunk                                                             *)
(***************************************************************************)
\* (mutation: the last attempt is taken to be the one after the third)
LastAttempt_OffByOne(attempt) == attempt = MAX_RETRIES

\* attempt === MAX_RETRIES - 1
LastAttempt(attempt) == attempt = MAX_RETRIES - 1

\* (mutation: every chunk's response is parsed for file.uri)
ResultUri_AnyChunk(isLastChunk, u) == u

\* lines 226-235: only the final chunk's response is parsed for file.uri
ResultUri(isLastChunk, u) == IF isLastChunk THEN u ELSE NoUri

\* lines 195-248: one pass of the retry loop.  u is the file.uri of the
\* response body (NoUri: the body has none or is no JSON).
SendAttempt(t) ==
    LET s == tr[t] IN
    /\ s.pc = "send"
    /\ \E x \in Exchanges, u \in {NoUri, UriOf(t)} :
         LET e  == IF x = "reject" THEN TransportErr ELSE HttpErr
             s1 == [s EXCEPT !.tries = @ + 1]
         IN
         Set(t, IF ~(s.attempt < MAX_RETRIES)
                THEN [s EXCEPT !.pc = "sent",
                               !.result = [success |-> FALSE, bytesUploaded |-> 0,
                                           error |-> "Max retries exceeded",
                                           fileUri |-> NoUri]]
                ELSE IF x = "ok"
                THEN [s1 EXCEPT !.pc = "sent",
                                !.result = [success |-> TRUE, bytesUploaded |-> s.chunk,
                                            error |-> "",
                                            fileUri |-> ResultUri(s.isLastChunk, u)],
                                !.sent = Append(@, [offset |-> s.bytesUploaded,
                                                    length |-> s.chunk,
                                                    finalize |-> s.isLastChunk,
                                                    fileUri |-> IF s.isLastChunk THEN u
                                                                ELSE NoUri])]
                ELSE IF LastAttempt(s.attempt)
                THEN [s1 EXCEPT !.pc = "sent", !.attemptErrs = Append(@, e),
                                !.result = [success |-> FALSE, bytesUploaded |-> 0,
                                            error |-> e, fileUri |-> NoUri]]
                ELSE [s1 EXCEPT !.pc = "retry", !.attemptErrs = Append(@, e)])

\* line 251 and the loop's attempt++: the wait of RETRY_DELAY ms
RetryWait(t) ==
    LET s == tr[t] IN
    /\ s.pc = "retry"
    /\ Set(t, [s EXCEPT !.pc = "send", !.attempt = @ + 1])

\* (mutation: the result of uploadChunk is not looked at)
ChunkFailed_Never(result) == FALSE

\* if (!result.success), line 163
ChunkFailed(result) == ~result.success

\* (mutation: the two branches of the ternary are exchanged)
ChunkStatus_Swapped(isLastChunk) == IF isLastChunk THEN "uploading" ELSE "finalizing"

\* isLastChunk ? 'finalizing' : 'uploading', line 174
ChunkStatus(isLastChunk) == IF isLastChunk THEN "finalizing" ELSE "uploading"

\* lines 163-181: the result of uploadChunk back in streamUploadInChunks
\* (the locals of the finished iteration are dropped)
ChunkDone(t) ==
    LET s == tr[t]
        b == s.bytesUploaded + s.result.bytesUploaded
        last == s.isLastChunk
        s1 == [s EXCEPT !.bytesUploaded = b, !.chunkSize = 0, !.isLastChunk = FALSE,
                        !.chunk = 0, !.attempt = 0, !.result = NoResult,
                        !.attemptErrs = <<>>, !.tries = 0]
    IN
    /\ s.pc = "sent"
    /\ \E d \in Pushes :
         Set(t, IF ChunkFailed(s.result)
                THEN Throw(s, Err("Chunk upload failed", s.result.error))
                ELSE reportProgress(
                       IF last /\ s.result.fileUri # NoUri
                       THEN [s1 EXCEPT !.pc = "wait", !.fileUri = s.result.fileUri]
                       ELSE [s1 EXCEPT !.pc = "loop"],
                       t,
                       Progress(b, s.totalSize, Percentage(b, s.totalSize),
                                ChunkStatus(last),
                                IF last THEN "Finalizing streaming upload" ELSE "Streamed"),
                       d))

(***************************************************************************)
(* waitForFileActive                                                       *)
(***************************************************************************)
\* (mutation: no Math.min with maxTimeoutSeconds)
TimeoutOf_Uncapped(n) ==
    LET unit == 262144
        add  == (n \div unit) * 125 + ((n % unit) * 125) \div unit
        rest == ((n % unit) * 125) % unit
    IN  [ms |-> baseTimeoutSeconds * 1000 + add, frac |-> rest]

\* timeoutSeconds * 1000 for a file of n >= 0 bytes, lines 266-274, as ms ms
\* plus frac / 2^18 ms:  (60 + n / 2^20 * 0.5) * 1000 = 60000 + n * 125 / 2^18,
\* capped at 300 * 1000
TimeoutOf(n) ==
    LET unit == 262144
        add  == (n \div unit) * 125 + ((n % unit) * 125) \div unit
        rest == ((n % unit) * 125) % unit
    IN  IF baseTimeoutSeconds * 1000 + add >= maxTimeoutSeconds * 1000
        THEN [ms |-> maxTimeoutSeconds * 1000, frac |-> 0]
        ELSE [ms |-> baseTimeoutSeconds * 1000 + add, frac |-> rest]

\* (mutation: the loop tests the cap, not the computed timeout)
BeforeDeadline_Cap(elapsed, timeout) == elapsed < maxTimeoutSeconds * 1000

\* Date.now() - startTime < timeoutSeconds * 1000
BeforeDeadline(elapsed, timeout) ==
    elapsed < timeout.ms \/ (elapsed = timeout.ms /\ timeout.frac > 0)

\* Math.min(1000 * Math.pow(1.5, attempt - 1), 5000): 1000, 1500, 2250, 3375,
\* then 5000 (1000 * 1.5^4 = 5062.5 is over the cap, and the power only grows)
BaseDelay(attempt) ==
    CASE attempt = 1 -> 1000
      [] attempt = 2 -> 1500
      [] attempt = 3 -> 2250
      [] attempt = 4 -> 3375
      [] OTHER -> 5000

\* lines 262-281
WaitEnter(t) ==
    LET s == tr[t] IN
    /\ s.pc = "wait"
    /\ Set(t, [s EXCEPT !.pc = "pollLoop", !.timeout = TimeoutOf(s.totalSize),
                        !.pollAttempt = 0, !.elapsed = 0])

\* lines 283-292: the loop test and the status request; lines 323-328 when
\* the deadline has passed
PollIssue(t) ==
    LET s == tr[t] IN
    /\ s.pc = "pollLoop"
    /\ Set(t, IF BeforeDeadline(s.elapsed, s.timeout)
              THEN [s EXCEPT !.pc = "polling", !.pollAttempt = @ + 1]
              ELSE Throw(s, Err("File did not become ACTIVE", "")))

\* what the status endpoint answered: "error" for a rejected fetch or a
\* non-2xx status, else the state of the 2xx body
Answer(x, st) == IF x # "ok" THEN "error" ELSE st

\* (mutation: any state but FAILED counts as ACTIVE)
TryPoll_NotFailedIsActive(x, st) ==
    CASE x = "reject" -> "throw"
      [] x = "status" -> "fallthrough"
      [] st = "FAILED" -> "throw"
      [] OTHER -> "return"

\* lines 287-308, the body of the try: "return" (line 302), "throw" (fetch
\* rejects, or line 306 for FAILED), or "fallthrough" to the backoff (the
\* warning of line 295 for a non-2xx status, or any other state)
TryPoll(x, st) ==
    CASE x = "reject" -> "throw"
      [] x = "status" -> "fallthrough"
      [] st = "ACTIVE" -> "return"
      [] st = "FAILED" -> "throw"
      [] OTHER -> "fallthrough"

\* (mutation: no catch around the status check)
CatchPoll_Rethrow(outcome) == outcome

\* lines 310-312: the catch of the try logs whatever was thrown and goes on
CatchPoll(outcome) == IF outcome = "throw" THEN "fallthrough" ELSE outcome

\* lines 288-312: the status response, lat ms after the request (the locals
\* of waitForFileActive are dropped when it returns)
PollResponse(t) ==
    LET s == tr[t] IN
    /\ s.pc = "polling"
    /\ \E a \in PollAnswers, lat \in Latencies :
         LET x  == a.x
             st == a.st
             o  == CatchPoll(TryPoll(x, st))
             s1 == [s EXCEPT !.elapsed = @ + lat,
                             !.slow = IF lat > 0 THEN @ + 1 ELSE @,
                             !.polled = @ \cup ({Answer(x, st)} \ {"PROCESSING"})]
         IN
         /\ lat > 0 => s.slow < MaxSlowSteps
         /\ Set(t, CASE o = "return" ->
                       [s1 EXCEPT !.pc = "active", !.elapsed = 0, !.pollAttempt = 0,
                                  !.timeout = [ms |-> 0, frac |-> 0], !.slow = 0]
                     [] o = "throw" ->
                          Throw(s1, IF x = "reject" THEN Err(TransportErr, "")
                                    ELSE Err("File processing failed in Google Files API",
                                             ""))
                     [] OTHER -> [s1 EXCEPT !.pc = "backoff"])

\* lines 315-320: the wait before the next check
Backoff(t) ==
    LET s == tr[t] IN
    /\ s.pc = "backoff"
    /\ \E jitter \in Jitters :
         /\ jitter > 0 => s.slow < MaxSlowSteps
         /\ Set(t, [s EXCEPT !.pc = "pollLoop",
                             !.slow = IF jitter > 0 THEN @ + 1 ELSE @,
                             !.elapsed = @ + BaseDelay(s.pollAttempt) + jitter])

(***************************************************************************)
(* uploadFile, lines 58-74, and the handler's answer, part_002 49-64       *)
(***************************************************************************)
\* (mutation: the completed event reports the bytes counted by the loop)
CompletedProgress_Counted(s) ==
    Progress(s.bytesUploaded, s.totalSize, Percentage(s.bytesUploaded, s.totalSize),
             "completed", "Streaming upload completed successfully")

\* lines 61-67: the event of the completion
CompletedProgress(s) ==
    Progress(s.totalSize, s.totalSize, 100, "completed",
             "Streaming upload completed successfully")

UploadCompleted(t) ==
    LET s == tr[t] IN
    /\ s.pc = "active"
    /\ \E d \in Pushes :
         Set(t, reportProgress([s EXCEPT !.pc = "return"], t, CompletedProgress(s), d))

RespondSuccess(t) ==
    LET s == tr[t] IN
    /\ s.pc = "return"
    /\ Set(t, [s EXCEPT !.pc = "done",
                        !.response = [status |-> 200, success |-> TRUE, error |-> "",
                                      fileUri |-> s.fileUri, totalSize |-> s.totalSize]])

(***************************************************************************)
(* uploadFile, lines 76-85, and the handler's catch, part_002 66-81        *)
(***************************************************************************)
\* (mutation: the failed event reports how far the transfer got)
FailureProgress_KeepsBytes(s) ==
    Progress(s.bytesUploaded, s.totalSize, 0, "failed", Message(s.error))

\* lines 77-83: the event of the catch block
FailureProgress(s) == Progress(0, 0, 0, "failed", Message(s.error))

UploadFailed(t) ==
    LET s == tr[t] IN
    /\ s.pc = "catch"
    /\ \E d \in Pushes :
         Set(t, reportProgress([s EXCEPT !.pc = "rethrow"], t, FailureProgress(s), d))

RespondError(t) ==
    LET s == tr[t] IN
    /\ s.pc = "rethrow"
    /\ Set(t, [s EXCEPT !.pc = "done",
                        !.response = [status |-> 500, success |-> FALSE,
                                      error |-> Message(s.error), fileUri |-> NoUri,
                                      totalSize |-> 0]])

Next ==
    \E t \in Transfers :
        \/ HandleRequest(t)
        \/ Probe(t)
        \/ StartUploadSession(t)
        \/ NextChunk(t)
        \/ ChunkFetched(t)
        \/ SendAttempt(t)
        \/ RetryWait(t)
        \/ ChunkDone(t)
        \/ WaitEnter(t)
        \/ PollIssue(t)
        \/ PollResponse(t)
        \/ Backoff(t)
        \/ UploadCompleted(t)
        \/ RespondSuccess(t)
        \/ UploadFailed(t)
        \/ RespondError(t)
        \/ ReportReturn(t)

Spec == Init /\ [][Next]_vars

(***************************************************************************)
(* The activation poller on its own: waitForFileActive is entered with the *)
(* object id and the size of a transfer whose chunks all went through at   *)
(* the first attempt, and runs to the handler's answer.                    *)
(***************************************************************************)
NumChunks(n) == (n + CHUNK_SIZE - 1) \div CHUNK_SIZE

Uploaded(t, n) ==
    LET k == NumChunks(n)
        off(i) == (i - 1) * CHUNK_SIZE
        len(i) == Min(CHUNK_SIZE, n - off(i))
    IN
    [Fresh("wait") EXCEPT
       !.totalSize = n, !.sessionOpen = TRUE, !.fileUri = UriOf(t), !.bytesUploaded = n,
       !.sessions = <<SessionCall(n, FALSE, "ok", TRUE)>>,
       !.ranges = [i \in 1..k |-> [offset |-> off(i), length |-> len(i),
                                   rangeEnd |-> off(i) + len(i) - 1]],
       !.sent = [i \in 1..k |-> [offset |-> off(i), length |-> len(i),
                                 finalize |-> (i = k),
                                 fileUri |-> IF i = k THEN UriOf(t) ELSE NoUri]],
       !.events =
          <<FullProgress(t, Progress(0, n, 0, "uploading",
                                     "Starting streaming upload to Google Files API"))>>
          \o [i \in 1..k |->
                FullProgress(t, Progress(off(i) + len(i), n,
                                         Percentage(off(i) + len(i), n),
                                         IF i = k THEN "finalizing" ELSE "uploading",
                                         IF i = k THEN "Finalizing streaming upload"
                                         ELSE "Streamed"))]]

PollInit ==
    \E n \in Sizes :
        tr = [t \in Transfers |-> IF t = 1 THEN Uploaded(t, n) ELSE Fresh("idle")]

PollNext ==
    \E t \in Transfers :
        \/ WaitEnter(t)
        \/ PollIssue(t)
        \/ PollResponse(t)
        \/ Backoff(t)
        \/ UploadCompleted(t)
        \/ RespondSuccess(t)
        \/ UploadFailed(t)
        \/ RespondError(t)
        \/ ReportReturn(t)

\* the runtime resumes every pending await: a step that can be taken is taken
PollSpec == PollInit /\ [][PollNext]_vars /\ WF_vars(PollNext)

(***************************************************************************)
(* The program without the journal and under the assumption that every     *)
(* call returns and time advances: every await is resumed, so a step that  *)
(* can be taken is taken.  Without the journal the states are the locals   *)
(* of the calls, and a loop of the program is a cycle of states.           *)
(***************************************************************************)
LiveInit ==
    tr = [t \in Transfers |->
            IF t = 1 THEN [Fresh("request") EXCEPT !.journal = FALSE] ELSE Fresh("idle")]

LiveSpec == LiveInit /\ [][Next]_vars /\ WF_vars(Next)

(***************************************************************************)
(* waitForFileActive(fileUri, fileSizeBytes) called with any size: the     *)
(* computation of the timeout, lines 262-281.                              *)
(***************************************************************************)
TimeoutSizes == {k * MiB + r : k \in 0..MaxSizeMiB, r \in {0, 1, MiB \div 2}}

TimeoutInit ==
    \E n \in TimeoutSizes :
        tr = [t \in Transfers |->
                IF t = 1 THEN [Fresh("wait") EXCEPT !.totalSize = n, !.fileUri = UriOf(t)]
                ELSE Fresh("idle")]

TimeoutNext == \E t \in Transfers : WaitEnter(t)

TimeoutSpec == TimeoutInit /\ [][TimeoutNext]_vars

(***************************************************************************)
(* The transfer in which every call succeeds: the handler gets a valid     *)
(* request, the probe a positive size, the session is granted, every range *)
(* request is answered with the bytes asked for, every transmission is     *)
(* accepted at the first attempt (the final one with a file.uri), and the  *)
(* first status poll says ACTIVE.  Progress pushes end as they like.       *)
(***************************************************************************)
Clean(s) ==
    /\ s.pc \notin {"catch", "rethrow", "retry", "backoff"}
    /\ s.error = NoErr
    /\ s.response.status \in {0, 200}
    /\ ~s.sizeNaN /\ s.totalSize >= 0
    /\ s.badBodies = 0
    /\ s.pc = "sent" => (s.result.success /\ (s.isLastChunk => s.result.fileUri # NoUri))

CleanNext ==
    \E t \in Transfers :
        \/ HandleRequest(t) /\ Clean(tr'[t])
        \/ Probe(t) /\ Clean(tr'[t])
        \/ StartUploadSession(t) /\ Clean(tr'[t])
        \/ NextChunk(t) /\ Clean(tr'[t])
        \/ ChunkFetched(t) /\ Clean(tr'[t])
        \/ SendAttempt(t) /\ Clean(tr'[t])
        \/ ChunkDone(t) /\ Clean(tr'[t])
        \/ WaitEnter(t) /\ Clean(tr'[t])
        \/ PollIssue(t) /\ Clean(tr'[t])
        \/ PollResponse(t) /\ Clean(tr'[t])
        \/ UploadCompleted(t) /\ Clean(tr'[t])
        \/ RespondSuccess(t) /\ Clean(tr'[t])
        \/ ReportReturn(t) /\ Clean(tr'[t])

CleanSpec == Init /\ [][CleanNext]_vars

(***************************************************************************)
(* Two requests in the worker at the same time: the handler is entered     *)
(* once per request and builds a ProgressReporter and a FileUploader of    *)
(* its own for it (part_002 28-40), so both transfers run, their steps     *)
(* interleaved at the awaits.  To keep the product of the two runs small   *)
(* each transfer meets a narrow environment: a file of two chunks (or no   *)
(* size at all), range bodies of the length asked for, at most two status  *)
(* polls without delay, progress pushes that are delivered or rejected.    *)
(***************************************************************************)
PairSize == CHUNK_SIZE + 1

MaxPairPolls == 2

Narrow(s) ==
    /\ ~s.sizeNaN /\ s.totalSize \in {0, PairSize}
    /\ s.badBodies = 0
    /\ s.tries <= MAX_RETRIES
    /\ s.slow = 0 /\ s.pollAttempt <= MaxPairPolls
    /\ s.push # "status"

PairInit == tr = [t \in Transfers |-> Fresh("request")]

PairNext ==
    \E t \in Transfers :
        \/ HandleRequest(t) /\ Narrow(tr'[t])
        \/ Probe(t) /\ Narrow(tr'[t])
        \/ StartUploadSession(t) /\ Narrow(tr'[t])
        \/ NextChunk(t) /\ Narrow(tr'[t])
        \/ ChunkFetched(t) /\ Narrow(tr'[t])
        \/ SendAttempt(t) /\ Narrow(tr'[t])
        \/ RetryWait(t) /\ Narrow(tr'[t])
        \/ ChunkDone(t) /\ Narrow(tr'[t])
        \/ WaitEnter(t) /\ Narrow(tr'[t])
        \/ PollIssue(t) /\ Narrow(tr'[t])
        \/ PollResponse(t) /\ Narrow(tr'[t])
        \/ Backoff(t) /\ Narrow(tr'[t])
        \/ UploadCompleted(t) /\ Narrow(tr'[t])
        \/ RespondSuccess(t) /\ Narrow(tr'[t])
        \/ UploadFailed(t) /\ Narrow(tr'[t])
        \/ RespondError(t) /\ Narrow(tr'[t])
        \/ ReportReturn(t) /\ Narrow(tr'[t])

PairSpec == PairInit /\ [][PairNext]_vars

(***************************************************************************)
(* Properties                                                              *)
(***************************************************************************)
Failed(s) == s.error # NoErr

FailedEvents(s) == {i \in DOMAIN s.events : s.events[i].status = "failed"}

\* the ranges of r follow one another from byte 0 on
Contiguous(r) ==
    /\ Len(r) > 0 => r[1].offset = 0
    /\ \A i \in 1..(Len(r) - 1) : r[i + 1].offset = r[i].offset + r[i].length

\* C1: the byte ranges requested from the source and transmitted cover
\* [0, totalSize) exactly once, in order, without gap or overlap, and the
\* last one has totalSize mod CHUNK_SIZE bytes (CHUNK_SIZE when that is 0).
C1_RangesCoverFileOnce ==
    \A t \in Transfers :
        LET s == tr[t] IN
        /\ Contiguous(s.ranges)
        /\ \A i \in DOMAIN s.sent :
             /\ s.sent[i].offset = s.ranges[i].offset
             /\ s.sent[i].length = s.ranges[i].length
        /\ s.pc = "wait" =>
             /\ Last(s.ranges).offset + Last(s.ranges).length = s.totalSize
             /\ Last(s.ranges).length =
                  (IF s.totalSize % CHUNK_SIZE = 0 THEN CHUNK_SIZE
                   ELSE s.totalSize % CHUNK_SIZE)

\* C2: uploadChunk never makes more than MAX_RETRIES transmissions of one
\* chunk; it reports failure only after MAX_RETRIES failed ones, with the
\* error of the last; a transmission that succeeds is the last one made and
\* is reported as success.
C2_ThreeAttempts ==
    \A t \in Transfers :
        LET s == tr[t] IN
        /\ s.tries <= MAX_RETRIES
        /\ s.pc \in {"send", "retry"} => s.tries = Len(s.attemptErrs)
        /\ (s.pc = "sent" /\ ~s.result.success) =>
             /\ s.tries = MAX_RETRIES
             /\ Len(s.attemptErrs) = MAX_RETRIES
             /\ s.result.error = Last(s.attemptErrs)
        /\ (s.pc = "sent" /\ s.result.success) =>
             /\ s.tries = Len(s.attemptErrs) + 1
             /\ Len(s.sent) = Len(s.ranges)

C2_Witness ==
    /\ tr[1].pc = "sent"
    /\ ~tr[1].result.success
    /\ tr[1].attemptErrs = <<HttpErr, HttpErr, TransportErr>>

\* C3: a chunk is transmitted only when every chunk before it has been
\* confirmed, each at the offset of its own range request; once a chunk has
\* failed all its attempts nothing more is fetched, sent or polled and the
\* caller gets a failure.
C3_StrictChunkOrder ==
    \A t \in Transfers :
        LET s == tr[t] IN
        /\ Len(s.sent) <= Len(s.ranges)
        /\ \A i \in DOMAIN s.sent : s.sent[i].offset = s.ranges[i].offset
        /\ s.pc \in {"send", "retry"} => Len(s.sent) = Len(s.ranges) - 1
        /\ s.error.msg = "Chunk upload failed" =>
             /\ s.pc \in {"catch", "reported", "rethrow", "done"}
             /\ Len(s.sent) = Len(s.ranges) - 1
             /\ s.pollAttempt = 0
             /\ s.pc = "done" =>
                  /\ s.response.status = 500
                  /\ ~s.response.success
                  /\ s.response.error = "Chunk upload failed: " \o s.result.error

C3_Witness ==
    /\ tr[1].pc = "done"
    /\ tr[1].error.msg = "Chunk upload failed"
    /\ tr[1].totalSize = 20 * MiB
    /\ Len(tr[1].ranges) = 2
    /\ Len(tr[1].sent) = 1

\* C4: once the status endpoint has reported FAILED the poller has aborted
\* with the processing-failed error.
C4_FailedStateAborts ==
    \A t \in Transfers :
        LET s == tr[t] IN
        "FAILED" \in s.polled =>
            /\ s.pc \in {"catch", "reported", "rethrow", "done"}
            /\ s.error.msg = "File processing failed in Google Files API"

\* C5: a failing uploadFile emits exactly one failed event, with
\* bytesUploaded = 0 and the failure message, as the last event, before the
\* error reaches the caller; nothing else emits a failed event.
C5_OneFailedEventLast ==
    \A t \in Transfers :
        LET s == tr[t] IN
        /\ Cardinality(FailedEvents(s)) <= 1
        /\ FailedEvents(s) # {} =>
             /\ Failed(s)
             /\ s.pc \in {"reported", "rethrow", "done"}
             /\ Last(s.events).status = "failed"
             /\ Last(s.events).bytesUploaded = 0
             /\ Last(s.events).message = Message(s.error)
        /\ (Failed(s) /\ s.pc \in {"rethrow", "done"}) => FailedEvents(s) # {}
        /\ s.response.status = 500 => (Failed(s) /\ FailedEvents(s) # {})

C5_Witness ==
    /\ tr[1].pc = "done"
    /\ tr[1].response.status = 500
    /\ tr[1].error.msg = "Chunk upload failed"
    /\ tr[1].bytesUploaded > 0
    /\ Len(tr[1].events) = 3

\* C6: 0 <= bytesUploaded <= totalSize in every state of a transfer of a
\* file of known positive size.
C6_BytesWithinTotal ==
    \A t \in Transfers :
        LET s == tr[t] IN
        (~s.sizeNaN /\ s.totalSize > 0) =>
            (0 <= s.bytesUploaded /\ s.bytesUploaded <= s.totalSize)

\* C7 as claimed: uploadChunk's result carries an object id if and only if
\* it is the successful transmission of the final chunk.
C7_UriIffFinalChunkSucceeded ==
    \A t \in Transfers :
        LET s == tr[t] IN
        s.pc = "sent" =>
            ((s.result.fileUri # NoUri) <=> (s.isLastChunk /\ s.result.success))

\* C7 as amended: an object id is set only by a successful transmission that
\* carried the finalize command, never by an intermediate or a failed one,
\* and such a transmission sets it exactly when its response holds a
\* file.uri; the id uploadFile goes on with is the one of the last
\* transmission.
C7_UriOnlyFromFinalResponse ==
    \A t \in Transfers :
        LET s == tr[t] IN
        /\ s.pc = "sent" =>
             /\ s.result.fileUri # NoUri => (s.isLastChunk /\ s.result.success)
             /\ (s.isLastChunk /\ s.result.success) =>
                  s.result.fileUri = Last(s.sent).fileUri
        /\ \A i \in DOMAIN s.sent : s.sent[i].fileUri # NoUri => s.sent[i].finalize
        /\ s.fileUri # NoUri =>
             /\ s.sent # <<>>
             /\ Last(s.sent).finalize
             /\ Last(s.sent).fileUri = s.fileUri

C7_Witness ==
    /\ tr[1].pc = "sent"
    /\ tr[1].isLastChunk
    /\ tr[1].result.success
    /\ tr[1].result.fileUri = NoUri
    /\ Len(tr[1].sent) = 3

TimedOut(s) == s.error.msg = "File did not become ACTIVE"

\* less than the computed timeout (ms + frac / 2^18 ms) has passed since
\* waitForFileActive took its start time
WithinTimeout(s) ==
    IF s.timeout.frac = 0 THEN s.elapsed < s.timeout.ms ELSE s.elapsed <= s.timeout.ms

\* C8 as claimed: no status poll is issued once the timeout has elapsed, and
\* the poller gives up no later than the timeout after it started.
C8_NeverExceedsTimeout ==
    \A t \in Transfers :
        LET s == tr[t] IN
        /\ s.pc = "polling" => WithinTimeout(s)
        /\ TimedOut(s) => s.elapsed <= s.timeout.ms

\* C8 as amended: no status poll is issued once the timeout has elapsed; the
\* poller gives up at the first loop test at or after the deadline, which
\* follows the last poll's response and one backoff wait (under 6 s), so it
\* gives up less than one poll latency plus 6 s after the timeout.
C8_NoPollAfterTimeout ==
    \A t \in Transfers :
        LET s == tr[t] IN
        /\ s.pc = "polling" => WithinTimeout(s)
        /\ TimedOut(s) =>
             /\ ~WithinTimeout(s)
             /\ s.elapsed < s.timeout.ms + 1 + MaxLatency + 5000 + 1000

C8_Witness ==
    /\ tr[1].pc = "catch"
    /\ TimedOut(tr[1])
    /\ tr[1].elapsed > tr[1].timeout.ms + 4000

Completed(s) == \E i \in DOMAIN s.events : s.events[i].status = "completed"

\* C9: a poller that is only ever answered with a 2xx response whose state
\* is neither ACTIVE nor FAILED stops polling: the handler answers 500 with
\* the did-not-become-ACTIVE error, and no completed event was emitted.
C9_ProcessingForeverTimesOut ==
    \A t \in Transfers :
        (tr[t].pc = "pollLoop")
            ~> \/ tr[t].polled # {}
               \/ /\ tr[t].pc = "done"
                  /\ tr[t].response.status = 500
                  /\ ~tr[t].response.success
                  /\ TimedOut(tr[t])
                  /\ tr[t].response.error = "File did not become ACTIVE"
                  /\ ~Completed(tr[t])

C9_Witness ==
    /\ tr[1].pc = "done"
    /\ tr[1].polled = {}
    /\ tr[1].pollAttempt > 10
    /\ TimedOut(tr[1])
    /\ ~tr[1].response.success

\* C10: a status poll that ends in a request error does not end the wait:
\* the poller goes on to the backoff and the next loop test, only the
\* deadline makes it give up, and an ACTIVE answer after the error still
\* makes the handler answer success with the object id.
C10_PollErrorsAreNotTerminal ==
    \A t \in Transfers :
        LET s == tr[t] IN
        "error" \in s.polled =>
            /\ Failed(s) => (TimedOut(s) /\ ~WithinTimeout(s))
            /\ ~Failed(s) =>
                 s.pc \in {"backoff", "pollLoop", "polling", "active", "reported", "return",
                          "done"}
            /\ (s.pc = "done" /\ "ACTIVE" \in s.polled) =>
                 /\ s.response.status = 200
                 /\ s.response.success
                 /\ s.response.fileUri = s.fileUri
                 /\ Completed(s)

C10_Witness ==
    /\ tr[1].pc = "done"
    /\ tr[1].polled = {"error", "ACTIVE"}
    /\ tr[1].response.success

\* what a transfer did to the outside world and what it will answer
Outward(s) ==
    [sessions |-> s.sessions, ranges |-> s.ranges, sent |-> s.sent, polled |-> s.polled,
     pollAttempt |-> s.pollAttempt, events |-> s.events, error |-> s.error,
     response |-> s.response, fileUri |-> s.fileUri, totalSize |-> s.totalSize,
     bytesUploaded |-> s.bytesUploaded]

\* C11: however the push of a progress event ends (delivered, non-2xx
\* status, transport error), reportProgress returns normally to the
\* statement after the call and changes nothing of the transfer: no error
\* is raised, and the requests made, the polls, the byte count and the
\* answer to the caller are what they were when the event was built.
C11_DeliveryFailureChangesNothing ==
    [][\A t \in Transfers :
         (tr[t].pc = "reported" /\ tr'[t] # tr[t]) =>
             /\ tr[t].ret \in {"session", "loop", "wait", "return", "rethrow"}
             /\ tr'[t].pc = tr[t].ret
             /\ Outward(tr'[t]) = Outward(tr[t])]_vars

\* the push of the completed event of a three-chunk transfer was rejected
C11_Witness ==
    /\ tr[1].pc = "reported"
    /\ tr[1].push = "reject"
    /\ tr[1].ret = "return"
    /\ Last(tr[1].events).status = "completed"
    /\ Len(tr[1].sent) = 3

\* the events streamUploadInChunks emitted: all but the start event and the
\* completed or failed event
ChunkEvents(s) ==
    {i \in DOMAIN s.events : i > 1 /\ s.events[i].status \in {"uploading", "finalizing"}}

RECURSIVE SentBytes(_, _)
\* the bytes of the first n transmissions that succeeded
SentBytes(sent, n) == IF n = 0 THEN 0 ELSE SentBytes(sent, n - 1) + sent[n].length

\* p is 100 * b / total rounded to the nearest integer, halves up:
\* 2p - 1 <= 200 * b / total < 2p + 1.  With b = q * total + r and
\* total = 200 * a + c the test is made on r, a and c so that no product
\* leaves 32 bits.
IsRounded(p, b, total) ==
    LET q == b \div total
        r == b % total
        a == total \div 200
        c == total % 200
        d == p - 100 * q
        low(k) == k * a + (k * c + 199) \div 200
    IN  /\ d \in 0..100
        /\ d > 0 => r >= low(2 * d - 1)
        /\ r < low(2 * d + 1)

StateRank(events, i) ==
    CASE events[i].status = "failed" -> 4
      [] events[i].status = "completed" -> 3
      [] events[i].status = "finalizing" -> 2
      [] i = 1 -> 0
      [] OTHER -> 1

Terminal(s) == s.events # <<>> /\ Last(s.events).status \in {"completed", "failed"}

\* C13: from one event to the next the state never moves backward, and
\* moves to Completed only from Finalizing; nothing follows a completed or a
\* failed event: no event, no range request, no transmission, no status
\* poll, so no transfer has both a completed and a failed event.
C13_ForwardOnlyTerminalStates ==
    /\ [](\A t \in Transfers :
            LET s == tr[t] IN
            /\ s.events # <<>> => StateRank(s.events, 1) \in {0, 4}
            /\ \A i \in 1..(Len(s.events) - 1) :
                 LET a == StateRank(s.events, i)
                     b == StateRank(s.events, i + 1)
                 IN  /\ a < 3
                     /\ b = 4 \/ b >= a
                     /\ b = 3 => a = 2
            /\ Terminal(s) => s.pc \in {"reported", "return", "rethrow", "done"})
    /\ [][\A t \in Transfers :
            Terminal(tr[t]) =>
                /\ tr'[t].events = tr[t].events
                /\ tr'[t].ranges = tr[t].ranges
                /\ tr'[t].sent = tr[t].sent
                /\ tr'[t].sessions = tr[t].sessions
                /\ tr'[t].polled = tr[t].polled
                /\ tr'[t].pollAttempt = tr[t].pollAttempt]_vars

C13_Witness ==
    /\ tr[1].pc = "done"
    /\ Len(tr[1].events) = 5
    /\ StateRank(tr[1].events, 3) = 1
    /\ StateRank(tr[1].events, 4) = 2
    /\ StateRank(tr[1].events, 5) = 4
    /\ tr[1].pollAttempt > 0

\* C14: every call of startUploadSession is made with a total size that is
\* a number greater than 0; for every other outcome of the size probe the
\* transfer fails with the unknown-size error and opens no session.
C14_SessionOnlyWithPositiveSize ==
    \A t \in Transfers :
        LET s == tr[t] IN
        /\ \A i \in DOMAIN s.sessions : ~s.sessions[i].nan /\ s.sessions[i].size > 0
        /\ s.error.msg = "Unable to determine file size" => s.sessions = <<>>

SessionRejected(s) ==
    s.error.msg \in {"Failed to start upload session",
                     "Missing upload URL from Google Files API"}

\* C15: a transfer makes at most one session-open call, and exactly one
\* before its first range request; a call that is answered with a non-2xx
\* status or without the upload URL fails the transfer at once: no second
\* call, no range request, no transmission and no status poll is made.
C15_SessionOpenedOnceNoRetry ==
    \A t \in Transfers :
        LET s == tr[t] IN
        /\ Len(s.sessions) <= 1
        /\ s.ranges # <<>> => (Len(s.sessions) = 1 /\ s.sessions[1].granted)
        /\ (s.sessions # <<>> /\ ~s.sessions[1].granted) =>
             /\ Failed(s)
             /\ s.pc \in {"catch", "reported", "rethrow", "done"}
             /\ s.ranges = <<>> /\ s.sent = <<>>
             /\ s.pollAttempt = 0 /\ s.polled = {}
        /\ SessionRejected(s) =>
             /\ Len(s.sessions) = 1 /\ ~s.sessions[1].granted
             /\ s.pc = "done" => (s.response.status = 500 /\ ~s.response.success)

C15_Witness ==
    /\ tr[1].pc = "done"
    /\ tr[1].error.msg = "Missing upload URL from Google Files API"
    /\ tr[1].totalSize = 20 * MiB
    /\ Len(tr[1].events) = 2

\* C16: when every call succeeds at its first attempt and the first poll
\* says ACTIVE, the transfer never stops short of the handler's answer; it
\* makes ceil(totalSize / CHUNK_SIZE) transmissions, each of CHUNK_SIZE
\* bytes but the last, which has the rest; only the last carries the
\* finalize command; the answer is success with the probed size and the
\* object id of the last transmission's response.
C16_CleanRun ==
    \A t \in Transfers :
        LET s == tr[t]
            k == NumChunks(s.totalSize)
        IN
        /\ s.pc \notin {"idle", "done"} => ENABLED CleanNext
        /\ Len(s.sent) <= k
        /\ \A i \in DOMAIN s.sent :
             /\ s.sent[i].offset = (i - 1) * CHUNK_SIZE
             /\ s.sent[i].length = Min(CHUNK_SIZE, s.totalSize - (i - 1) * CHUNK_SIZE)
             /\ s.sent[i].finalize <=> (i = k)
        /\ s.pc \in {"send", "retry", "sent"} => s.tries <= 1
        /\ s.pollAttempt <= 1
        /\ s.pc = "done" =>
             /\ Len(s.sent) = k
             /\ s.response.status = 200
             /\ s.response.success
             /\ s.response.totalSize = s.totalSize
             /\ s.response.fileUri = Last(s.sent).fileUri
             /\ s.response.fileUri # NoUri

C16_Witness ==
    /\ tr[1].pc = "done"
    /\ tr[1].response.success
    /\ tr[1].response.totalSize = 20971520
    /\ tr[1].response.fileUri = UriOf(1)
    /\ Len(tr[1].sent) = 3
    /\ tr[1].sent[1].length = 8 * MiB
    /\ tr[1].sent[2].length = 8 * MiB
    /\ tr[1].sent[3].length = 4 * MiB
    /\ tr[1].sent[3].finalize

Succeeded(s) == s.pc = "done" /\ s.response.success

IsStartEvent(e, s) ==
    /\ e.status = "uploading"
    /\ e.percentage = 0
    /\ e.bytesUploaded = 0
    /\ e.totalBytes = s.totalSize

\* C17: the start event (uploading, 0 %, 0 bytes) is emitted before the
\* session is opened; the completed event is emitted only after a status
\* poll said ACTIVE; the events of a transfer that succeeded are the start
\* event, one event per successful transmission in their order (the one of
\* a transmission with the finalize command has status finalizing, and the
\* last transmission is one), and the completed event with 100 % and
\* bytesUploaded = totalBytes = totalSize, as the last.
C17_EventsOfASuccess ==
    \A t \in Transfers :
        LET s == tr[t]
            n == Len(s.sent)
        IN
        /\ (s.pc = "reported" /\ s.ret = "session") => s.sessions = <<>>
        /\ s.sessions # <<>> => (s.events # <<>> /\ IsStartEvent(s.events[1], s))
        /\ Completed(s) => "ACTIVE" \in s.polled
        /\ Succeeded(s) =>
             /\ Len(s.events) = n + 2
             /\ IsStartEvent(s.events[1], s)
             /\ \A i \in 1..n :
                  /\ s.events[i + 1].bytesUploaded = SentBytes(s.sent, i)
                  /\ s.events[i + 1].status =
                       (IF s.sent[i].finalize THEN "finalizing" ELSE "uploading")
             /\ n > 0 /\ s.sent[n].finalize
             /\ Last(s.events).status = "completed"
             /\ Last(s.events).percentage = 100
             /\ Last(s.events).bytesUploaded = s.totalSize
             /\ Last(s.events).totalBytes = s.totalSize

C17_Witness ==
    /\ Succeeded(tr[1])
    /\ tr[1].totalSize = 20 * MiB
    /\ Len(tr[1].events) = 5
    /\ tr[1].events[2].percentage = 40
    /\ tr[1].events[3].percentage = 80
    /\ tr[1].events[4].status = "finalizing"
    /\ tr[1].events[5].status = "completed"

\* C18: the timeout waitForFileActive computes is min(60 + 0.5 * sizeMB, 300)
\* seconds, sizeMB = fileSizeBytes / 2^20: 60 s for size 0, 500 ms more for
\* every MiB (125 / 2^18 ms for every byte), and 300 s from 480 MiB on.
C18_TimeoutFormula ==
    \A t \in Transfers :
        LET s   == tr[t]
            k   == s.totalSize \div MiB
            r   == s.totalSize % MiB
            mib == 60 * 1000 + 500 * k
        IN
        s.pc = "pollLoop" =>
            /\ s.totalSize = 0 => s.timeout = [ms |-> 60 * 1000, frac |-> 0]
            /\ k >= 480 => s.timeout = [ms |-> 300 * 1000, frac |-> 0]
            /\ k < 480 =>
                 /\ s.timeout.ms - mib \in 0..499
                 /\ s.timeout.frac \in 0..262143
                 /\ (s.timeout.ms - mib) * 262144 + s.timeout.frac = 125 * r

C18_Witness ==
    /\ tr[1].pc = "pollLoop"
    /\ tr[1].totalSize = 600 * MiB
    /\ tr[1].timeout = [ms |-> 300000, frac |-> 0]

Polling(s) ==
    \/ s.pc \in {"wait", "pollLoop", "polling", "backoff", "active"}
    \/ s.pollAttempt > 0
    \/ s.polled # {}

\* some transmission with the finalize command was accepted with a response
\* that holds no file.uri
FinalWithoutUri(s) ==
    \E i \in DOMAIN s.sent : s.sent[i].finalize /\ s.sent[i].fileUri = NoUri

\* C19: waitForFileActive is entered only with the object id of an accepted
\* transmission that carried the finalize command; a transfer whose final
\* chunk was accepted without a file.uri in the response makes no status
\* poll and fails with the no-file-URI error.
C19_PollerOnlyWithObjectId ==
    \A t \in Transfers :
        LET s == tr[t] IN
        /\ Polling(s) =>
             /\ s.fileUri # NoUri
             /\ s.sent # <<>>
             /\ Last(s.sent).finalize
             /\ Last(s.sent).fileUri = s.fileUri
        /\ FinalWithoutUri(s) =>
             /\ ~Polling(s)
             /\ s.pc \in {"catch", "rethrow", "done"} =>
                  s.error.msg = "Streaming upload completed but no file URI received"

\* C20: when every call returns and time advances, every request that
\* reaches the worker is answered: uploadFile ends in success, an error or
\* the activation timeout, and the chunk loop ends whatever bodies the
\* source returns.
C20_EveryTransferTerminates ==
    \A t \in Transfers : (tr[t].pc = "request") ~> (tr[t].pc = "done")


\* what transfer t holds is a function of its own exchanges only
Own(t) ==
    LET s == tr[t]
        accepted == IF s.pc = "sent" /\ s.result.success THEN Len(s.sent) - 1
                    ELSE Len(s.sent)
    IN
    \* emitted events carry the transfer's own ids
    /\ \A i \in DOMAIN s.events : s.events[i].uploadId = t /\ s.events[i].videoId = t
    \* bytesUploaded counts the transfer's own accepted chunks
    /\ s.bytesUploaded = SentBytes(s.sent, accepted)
    \* chunk offsets follow the transfer's own count
    /\ s.pc \in {"fetch", "send", "retry", "sent"} => Last(s.ranges).offset = s.bytesUploaded
    /\ \A i \in DOMAIN s.sent : \E j \in DOMAIN s.ranges : s.ranges[j].offset = s.sent[i].offset
    \* the retry counter counts the failed attempts at the transfer's own chunk
    /\ s.pc = "send" => s.attempt = Len(s.attemptErrs)
    /\ s.pc = "retry" => s.attempt + 1 = Len(s.attemptErrs)
    /\ s.attempt \in 0..MAX_RETRIES
    \* the poll counter runs only in the transfer's own poller
    /\ s.pollAttempt > 0 =>
          /\ s.fileUri = UriOf(t)
          /\ s.sent # <<>> /\ Last(s.sent).finalize /\ Last(s.sent).fileUri = UriOf(t)
    \* the outcome is the transfer's own
    /\ s.fileUri \in {NoUri, UriOf(t)}
    /\ s.pc = "done" /\ s.response.status = 200 =>
          /\ s.response.fileUri = UriOf(t)
          /\ s.response.totalSize = s.totalSize
          /\ Last(s.events).status = "completed"
    /\ s.pc = "done" /\ s.response.status = 500 =>
          /\ s.response.error = Message(s.error)
          /\ Last(s.events).status = "failed"

\* a step is a step of one transfer and leaves the other as it was
OneTransferSteps == \E t \in Transfers : \A u \in Transfers \ {t} : tr'[u] = tr[u]

\* C21: two transfers running in the worker at the same time are isolated:
\* under every interleaving of their steps, each transfer's bytesUploaded,
\* chunk offsets, retry counter, poll counter, events (tagged with its own
\* uploadId and videoId) and outcome are determined by its own exchanges,
\* and no step of one transfer changes anything of the other.
C21_TransfersIsolated ==
    /\ [](\A t \in Transfers : Own(t))
    /\ [][OneTransferSteps]_vars

\* both transfers are in flight at once: the first waits to retry its second
\* chunk while the second is between two status polls
C21_Witness ==
    /\ tr[1].pc = "retry" /\ Len(tr[1].sent) = 1 /\ tr[1].bytesUploaded = CHUNK_SIZE
    /\ tr[1].attempt = 1 /\ Len(tr[1].events) = 2
    /\ tr[2].pc = "backoff" /\ tr[2].pollAttempt = MaxPairPolls
    /\ tr[2].bytesUploaded = PairSize /\ Len(tr[2].events) = 3


\* the accepted transmissions of s that carried 'upload, finalize'
Finalized(s) == {i \in DOMAIN s.sent : s.sent[i].finalize}

\* C22: within one upload session at most one transmission carrying the
\* finalize command is accepted, and once one has been accepted no further
\* range is requested from the source and nothing more is sent to the
\* session: the accepted finalizing transmission is the last transmission
\* and belongs to the last range request, whatever the length of the bodies
\* and whether or not its response has a file.uri.
C22_FinalizeEndsTheSession ==
    \A t \in Transfers :
        LET s == tr[t] IN
        /\ Cardinality(Finalized(s)) <= 1
        /\ \A i \in Finalized(s) : i = Len(s.sent) /\ Len(s.ranges) = i

=============================================================================
